---- MODULE Spec2Model ----
(***************************************************************************)
(* Protected swap execution pipeline of the Solana swap scripts:           *)
(*   mev  - src/lib/solana/swap/solana-swap-mev.ts                         *)
(*   p7   - src/unnamed/part_007                                           *)
(*   p8   - src/unnamed/part_008                                           *)
(*   p12  - src/unnamed/part_012                                           *)
(*   okx  - src/lib/solana/swap/solana-swap-instructions-okx.ts            *)
(* Quote acquisition, safety validation, transaction augmentation,         *)
(* submission and confirmation tracking, with the retry wrappers.          *)
(*                                                                         *)
(* Units: price impact in basis points (1% = 100), priority fees in tenths *)
(* of a micro-lamport (so that the factors 1.2 and 1.5 stay exact), time   *)
(* in milliseconds.                                                        *)
(***************************************************************************)
EXTENDS Integers, Sequences, FiniteSets, TLC

----------------------------------------------------------------------------
(* Program constants *)

\* mev.ts MEV_PROTECTION.MAX_PRICE_IMPACT_BPS
MAX_PRICE_IMPACT_BPS == 150
\* mev.ts / part_007 MEV_PROTECTION.MIN_ROUTE_SPLITS
MIN_ROUTE_SPLITS == 2
\* part_007 MEV_PROTECTION.MAX_PRICE_IMPACT "0.05", as basis points
P7_MAX_PRICE_IMPACT == 500
\* part_008 main: parseFloat(priceImpactPercentage) > 3, as basis points
P8_MAX_PRICE_IMPACT == 300
\* executeProtectedSwap: const MAX_RETRIES = 3 (retry wrapper)
MAX_RETRIES == 3
\* part_008 / part_012: const MAX_RETRIES = 3 (while loop of main)
P8_MAX_RETRIES == 3
BASE_COMPUTE_UNITS == 300000
MAX_COMPUTE_UNITS == 1200000
\* part_012 COMPUTE_UNITS: main builds a setComputeUnitLimit instruction with
\* it and never adds the instruction to the transaction
COMPUTE_UNITS == 300000
PRIORITY_MEDIUM == 10000
PRIORITY_VERY_HIGH == 1000000
\* part_007 MEV_PROTECTION.MIN_PRIORITY_FEE (read nowhere), MAX_PRIORITY_FEE,
\* PRIORITY_MULTIPLIER
MIN_PRIORITY_FEE == 10000
MAX_PRIORITY_FEE == 1000000
PRIORITY_MULTIPLIER == 2
\* mev.ts sendAndConfirmProtectedTransaction
MAX_TIMEOUT == 120000
CHECK_INTERVAL == 3000
\* mev.ts CONFIG.SLIPPAGE "0.5" (percent), as basis points
SLIPPAGE_BPS == 50
\* quote variance thresholds 0.01 (mev.ts) and 0.05 (part_007), as percent
MEV_VARIANCE_PCT == 1
P7_VARIANCE_PCT == 5

(* Bounds of the model *)

\* longest instruction list of a decoded payload (harness specifications)
MaxIx == 3
\* longest quoteCompareList
MaxCompare == 3

----------------------------------------------------------------------------
(* Helpers *)

Min(a, b) == IF a < b THEN a ELSE b
Max(a, b) == IF a > b THEN a ELSE b
Abs(a) == IF a < 0 THEN 0 - a ELSE a

RECURSIVE SeqSum(_)
SeqSum(s) == IF s = <<>> THEN 0 ELSE Head(s) + SeqSum(Tail(s))

RECURSIVE SeqMax(_)
SeqMax(s) == IF Len(s) = 1 THEN Head(s) ELSE Max(Head(s), SeqMax(Tail(s)))

\* Array.prototype.filter
Filter(s, keep(_)) == SelectSeq(s, keep)

Count(s, p(_)) == Len(Filter(s, p))

\* all sequences over S of length at most n
SeqsUpTo(S, n) == UNION {[1..k -> S] : k \in 0..n}

----------------------------------------------------------------------------
(* Instructions *)

ComputeBudgetProgram == "ComputeBudget"

\* ComputeBudgetProgram.setComputeUnitLimit({units})
setComputeUnitLimit(units) ==
    [programId |-> ComputeBudgetProgram, op |-> "SetComputeUnitLimit", arg |-> units]

\* ComputeBudgetProgram.setComputeUnitPrice({microLamports})
setComputeUnitPrice(fee) ==
    [programId |-> ComputeBudgetProgram, op |-> "SetComputeUnitPrice", arg |-> fee]

isLimitIx(ix) == ix.programId = ComputeBudgetProgram /\ ix.op = "SetComputeUnitLimit"
isPriceIx(ix) == ix.programId = ComputeBudgetProgram /\ ix.op = "SetComputeUnitPrice"
isOtherIx(ix) == ~isLimitIx(ix) /\ ~isPriceIx(ix)

\* part_008 buildProtectedTransaction: prioritizedPrograms
prioritizedPrograms == {"Token", "AssociatedToken", "System", "Stake"}

\* instructions a third-party payload may carry
PayloadIx ==
    { setComputeUnitLimit(200000), setComputeUnitPrice(50000),
      [programId |-> "Token", op |-> "transfer", arg |-> 0],
      [programId |-> "Dex", op |-> "swap", arg |-> 0] }

----------------------------------------------------------------------------
(* Transactions.  kind "versioned" is a VersionedTransaction, "legacy" a      *)
(* Transaction, "object" the plain object { ...newTx, requiredSigners } that *)
(* part_008 returns for a versioned payload (no prototype, no methods).      *)
(* recentBlockhash 0 is the block reference embedded in the payload; n > 0   *)
(* is the n-th one fetched by the run.                                       *)

NoTx == [kind |-> "none"]

\* base58.decode + VersionedTransaction.deserialize / Transaction.from
Decode(kind, ixs, payloadId) ==
    [kind |-> kind, instructions |-> ixs, recentBlockhash |-> 0,
     feePayerSet |-> FALSE, signed |-> FALSE, signedIxs |-> <<>>,
     payload |-> payloadId]

\* variant: the block reference embedded in the payload is kept
setRecentBlockhash_keepEmbedded(t, bh) == t

\* tx.message.recentBlockhash = ... / tx.recentBlockhash = ...
setRecentBlockhash(t, bh) == [t EXCEPT !.recentBlockhash = bh]

\* first occurrence of each instruction (Map keyed by program, keys and data)
RECURSIVE Dedup(_)
Dedup(s) ==
    IF s = <<>> THEN <<>>
    ELSE LET r == Dedup(SubSeq(s, 1, Len(s) - 1))
             x == s[Len(s)]
         IN  IF \E i \in 1..Len(r) : r[i] = x THEN r ELSE Append(r, x)

\* ceil(n / 2)
CeilHalf(n) == (n + 1) \div 2

calculateComputeUnits(tx) ==
    Min(BASE_COMPUTE_UNITS * CeilHalf(Len(tx.instructions)), MAX_COMPUTE_UNITS)

isPrioritized(ix) == ix.programId \in prioritizedPrograms
notComputeBudget(ix) == ix.programId # ComputeBudgetProgram

\* part_008 buildProtectedTransaction, versioned branch: a new Transaction
\* holding the two directives and the distinct instructions of the
\* prioritized programs only
buildProtectedVersioned(tx, fee) ==
    [tx EXCEPT !.kind = "object",
               !.feePayerSet = TRUE,
               !.instructions =
                   <<setComputeUnitLimit(calculateComputeUnits(tx)),
                     setComputeUnitPrice(fee)>>
                   \o Dedup(Filter(tx.instructions, isPrioritized))]

\* part_008 buildProtectedTransaction, legacy branch: drop every compute
\* budget instruction, then unshift the two directives
buildProtectedLegacy(tx, fee) ==
    [tx EXCEPT !.feePayerSet = TRUE,
               !.instructions =
                   <<setComputeUnitLimit(calculateComputeUnits(tx)),
                     setComputeUnitPrice(fee)>>
                   \o Filter(tx.instructions, notComputeBudget)]

buildProtectedTransaction(tx, fee) ==
    IF tx.kind = "versioned" THEN buildProtectedVersioned(tx, fee)
    ELSE buildProtectedLegacy(tx, fee)

\* mev.ts buildAndSignProtectedTransaction: tx.add(computeBudgetIx) for a
\* legacy Transaction only
Mev_addPriorityFee(tx, fee) ==
    IF tx.kind = "legacy"
    THEN [tx EXCEPT !.instructions = Append(@, setComputeUnitPrice(fee))]
    ELSE tx

\* mev.ts sendAndConfirmProtectedTransaction: tx.instructions.unshift(...)
\* for a legacy Transaction only
Mev_unshiftPriorityFee(tx, fee) ==
    IF tx.kind = "legacy"
    THEN [tx EXCEPT !.instructions = <<setComputeUnitPrice(fee)>> \o @]
    ELSE tx

\* tx.sign([feePayer]) / tx.partialSign(feePayer): the signature covers the
\* instruction list as it is now
Sign(tx) == [tx EXCEPT !.signed = TRUE, !.signedIxs = tx.instructions]

NumPriceIx(tx) == Count(tx.instructions, isPriceIx)
NumLimitIx(tx) == Count(tx.instructions, isLimitIx)

----------------------------------------------------------------------------
(* Safety validation.  A quote is the element data[0] of the swap response: *)
(* routerResult says whether it has a routerResult object; impact is the    *)
(* priceImpactPercentage the script reads (<<>> when the field is absent,   *)
(* <<v>> for v basis points); compare lists the amountOut of                *)
(* quoteCompareList; toTokenAmount is routerResult.toTokenAmount.           *)

Accept(warned) == [verdict |-> "ok", reason |-> "none", warned |-> warned]
Reject(reason) == [verdict |-> "reject", reason |-> reason, warned |-> FALSE]
\* an Error thrown after the variance warning was printed
RejectWarned(reason, warned) ==
    [verdict |-> "reject", reason |-> reason, warned |-> warned]

\* Math.abs(bestQuote - avgQuote) / bestQuote > pct / 100
quoteVarianceAbove(quotes, pct) ==
    LET best == SeqMax(quotes)
        n    == Len(quotes)
    IN  Abs(best * n - SeqSum(quotes)) * 100 > pct * best * n

\* Math.abs((outputAmount - expectedPrice) / expectedPrice * 100) > SLIPPAGE
priceDiffAbove(outputAmount, expectedPrice) ==
    Abs(outputAmount - expectedPrice) * 10000 > SLIPPAGE_BPS * expectedPrice

\* variant: a variance above the threshold throws
P7_validateSwapSafety_varianceRejects(quote) ==
    IF ~quote.routerResult THEN Reject("invalidQuote")
    ELSE IF quote.impact # <<>> /\ quote.impact[1] > P7_MAX_PRICE_IMPACT
         THEN Reject("priceImpact")
    ELSE IF Len(quote.compare) < MIN_ROUTE_SPLITS THEN Reject("diversity")
    ELSE IF quoteVarianceAbove(quote.compare, P7_VARIANCE_PCT)
         THEN RejectWarned("variance", TRUE)
    ELSE Accept(FALSE)

\* mev.ts MEVProtection.validateSwapSafety(quote, expectedPrice): the variance
\* warning is printed before the output amount is compared
Mev_validateSwapSafety(quote, expectedPrice) ==
    LET priceImpact == IF quote.impact = <<>> THEN 0 ELSE quote.impact[1]
        quoteCompareList == IF quote.routerResult THEN quote.compare ELSE <<>>
    IN  IF priceImpact > MAX_PRICE_IMPACT_BPS THEN Reject("priceImpact")
        ELSE IF Len(quoteCompareList) = 0 THEN Reject("noQuotes")
        ELSE IF priceDiffAbove(quote.toTokenAmount, expectedPrice)
             THEN RejectWarned("outputDiffers",
                               quoteVarianceAbove(quoteCompareList, MEV_VARIANCE_PCT))
        ELSE Accept(quoteVarianceAbove(quoteCompareList, MEV_VARIANCE_PCT))

\* part_007 MEVProtection.validateSwapSafety(quote)
P7_validateSwapSafety(quote) ==
    IF ~quote.routerResult THEN Reject("invalidQuote")
    ELSE IF quote.impact # <<>> /\ quote.impact[1] > P7_MAX_PRICE_IMPACT
         THEN Reject("priceImpact")
    ELSE IF Len(quote.compare) < MIN_ROUTE_SPLITS THEN Reject("diversity")
    ELSE Accept(quoteVarianceAbove(quote.compare, P7_VARIANCE_PCT))

\* variant: the percentage is compared as a fraction of one
P8_priceImpactTooHigh_asFraction(quote) ==
    quote.impact # <<>> /\ quote.impact[1] > P8_MAX_PRICE_IMPACT * 100

\* part_008 main: price impact protection
P8_priceImpactTooHigh(quote) ==
    quote.impact # <<>> /\ quote.impact[1] > P8_MAX_PRICE_IMPACT

----------------------------------------------------------------------------
(* Priority fee estimation, in tenths of a micro-lamport.  A sample is      *)
(* [ok |-> FALSE] when getRecentPrioritizationFees throws, else the list of *)
(* prioritizationFee values.                                                *)

RECURSIVE SortAsc(_)
SortAsc(s) ==
    IF s = <<>> THEN <<>>
    ELSE LET m == CHOOSE i \in 1..Len(s) : \A j \in 1..Len(s) : s[i] <= s[j]
         IN  <<s[m]>> \o SortAsc(SubSeq(s, 1, m - 1) \o SubSeq(s, m + 1, Len(s)))

\* recentFees.sort(...)[Math.floor(recentFees.length / 2)]
medianFee(fees) == SortAsc(fees)[(Len(fees) \div 2) + 1]

\* mev.ts TransactionBuilder.getPriorityFee
Mev_getPriorityFee(sample) ==
    IF ~sample.ok \/ sample.fees = <<>> THEN PRIORITY_VERY_HIGH * 10
    ELSE Min(SeqMax(sample.fees) * 3 * 10, PRIORITY_VERY_HIGH * 2 * 10)

\* part_007 TransactionBuilder.getPriorityFee
P7_getPriorityFee(sample) ==
    IF ~sample.ok \/ sample.fees = <<>> THEN MAX_PRIORITY_FEE * 10
    ELSE LET baseFee == Max(SeqMax(sample.fees),
                            medianFee(sample.fees) * PRIORITY_MULTIPLIER)
         IN  Min(baseFee * 15, MAX_PRIORITY_FEE * 10)

\* part_008 calculatePriorityFee
calculatePriorityFee(sample) ==
    IF ~sample.ok \/ sample.fees = <<>> THEN PRIORITY_MEDIUM * 10
    ELSE Min(SeqMax(sample.fees) * 12, PRIORITY_VERY_HIGH * 10)

----------------------------------------------------------------------------
(* Amount conversion.  The amount argument is a decimal string: NaN when    *)
(* parseFloat cannot read a number, else num / 10^frac.  The product with   *)
(* 10^decimals is taken exactly, which is what the double arithmetic of the *)
(* code yields for the amounts enumerated here.                             *)

RECURSIVE Pow10(_)
Pow10(n) == IF n = 0 THEN 1 ELSE 10 * Pow10(n - 1)

\* Math.pow(2, n)
RECURSIVE Pow2(_)
Pow2(n) == IF n = 0 THEN 1 ELSE 2 * Pow2(n - 1)

NaNAmount == [nan |-> TRUE, num |-> 0, frac |-> 0]
Amount(num, frac) == [nan |-> FALSE, num |-> num, frac |-> frac]

\* Math.floor(x) of x = a / b, b > 0
FloorDiv(a, b) == a \div b

Converted(value) == [ok |-> TRUE, value |-> value]
InvalidAmount == [ok |-> FALSE, value |-> 0]

\* convertAmount(amount, decimals) of mev.ts, part_007 and part_008
convertAmount(amount, decimals) ==
    IF amount.nan \/ amount.num <= 0 THEN InvalidAmount
    ELSE Converted(FloorDiv(amount.num * Pow10(decimals), Pow10(amount.frac)))

----------------------------------------------------------------------------
(* Aggregator responses.  httpOk is response.ok; code is the envelope code; *)
(* data0 says whether data[0] exists; tokens whether data[0] holds the      *)
(* fromToken and toToken descriptors; txData is the form of data[0].tx.data *)

Responses ==
    [httpOk : BOOLEAN, code : {"0", "50011"}, data0 : BOOLEAN, tokens : BOOLEAN,
     txData : {"missing", "nonstring", "string"}]

Returned == [ok |-> TRUE, error |-> "none"]
Thrown(error) == [ok |-> FALSE, error |-> error]

\* mev.ts OKXApi.getTokenInfo: the envelope test, then the reads of
\* fromToken.tokenSymbol and toToken.tokenSymbol (a TypeError on undefined)
Mev_getTokenInfo(r) ==
    IF ~r.httpOk \/ r.code # "0" \/ ~r.data0 THEN Thrown("QuoteUnavailable")
    ELSE IF ~r.tokens THEN Thrown("TypeError")
    ELSE Returned

\* mev.ts OKXApi.getSwapTransaction
Mev_getSwapTransaction(r) ==
    IF ~r.httpOk \/ r.code # "0" \/ ~r.data0 THEN Thrown("SwapUnavailable")
    ELSE IF r.txData # "string" THEN Thrown("invalidTxData")
    ELSE Returned

\* solana-swap-instructions-okx-new.ts OKXApi.getTokenInfo: no test of the
\* envelope code
OkxNew_getTokenInfo(r) ==
    IF ~r.httpOk \/ ~r.data0 THEN Thrown("QuoteUnavailable")
    ELSE IF ~r.tokens THEN Thrown("TypeError")
    ELSE Returned

----------------------------------------------------------------------------
(* State of one invocation of a script *)

VARIABLES
    script,         \* the program that runs
    pc,             \* control position
    honeyPot,       \* toToken.isHoneyPot as the aggregator reports it
    argsGiven,      \* amount and both token addresses are on the command line
    amountValid,    \* whether the amount argument parses to a number > 0
    retries,        \* parameter `retries` of the current retry() frame
    retryCount,     \* retryCount of main's while loop (part_008, part_012)
    waits,          \* the delays slept before the retries, in order
    simulation,     \* what simulateTransaction reported for the transaction
    attempts,       \* attempts begun: loop iterations, or calls of the retried fn
    quoteCalls,     \* requests sent to the quote endpoint
    quoteFails,     \* consecutive failed quote requests
    swapCalls,      \* requests sent to the swap endpoint
    swapData,       \* data[0] of the last swap response
    tx,             \* the transaction being built (protectedTx)
    signedTx,       \* part_008: the object Transaction.from(protectedTx) returned
    bhCalls,        \* block references fetched for building a transaction
    sent,           \* the transactions broadcast, in order
    failedReported, \* the network reported an execution error for a broadcast
    failedTx,       \* ids of the broadcasts whose confirmation carried an error
    lastError,      \* reason of the error thrown last
    outcome,        \* what the invocation ended with
    logged,         \* transaction ids printed with their explorer URL
    clock,          \* ms since the confirmation timers were set (mev.ts)
    interval,       \* the status-polling setInterval is scheduled
    timer,          \* the MAX_TIMEOUT setTimeout is scheduled
    lastStatus,     \* lastStatus of sendAndConfirmProtectedTransaction
    settledBy,      \* what settled the confirmation wait
    fn, arg, res, calls, \* function under test, its input, result, applications
    tokenMetadataCache,  \* part_009: the module-level Map of token metadata
    cacheWriter,         \* which execution set each entry of the Map
    metaCalls,           \* part_009: the calls of getTokenMetadata in progress
    swapRuns             \* part_009: the executions of executeProtectedSwap

pvars == <<script, pc, honeyPot, argsGiven, amountValid, retries, retryCount, waits,
           simulation,
           attempts,
           quoteCalls, quoteFails, swapCalls, swapData, tx, signedTx, bhCalls,
           sent, failedReported, failedTx, lastError, outcome, logged, clock,
           interval,
           timer, lastStatus, settledBy>>
hvars == <<fn, arg, res, calls>>
cvars == <<tokenMetadataCache, cacheWriter, metaCalls, swapRuns>>
vars == <<pvars, hvars, cvars>>

Scripts == {"mev", "p7", "p8", "p12", "okx"}
ClassScripts == {"mev", "p7"}
LoopScripts == {"p8", "p12"}

NoData == [id |-> 0]
Running == [status |-> "running", reason |-> "none", txId |-> 0, exit |-> "none"]

\* a rejected promise / thrown Error reaching main's catch: it carries a
\* message only; main prints it and calls process.exit(1)
Failure(reason) == [status |-> "error", reason |-> reason, txId |-> 0, exit |-> "1"]
\* the transaction id returned; the process ends with code 0
Success(txId) == [status |-> "ok", reason |-> "none", txId |-> txId, exit |-> "0"]

\* what sendRawTransaction(tx.serialize()) puts on the wire
Submitted(t) ==
    [instructions |-> t.instructions, recentBlockhash |-> t.recentBlockhash,
     payload |-> t.payload, signed |-> t.signed,
     signedIxs |-> t.signedIxs]

PipelineInit ==
    /\ pc = "start"
    /\ retries = MAX_RETRIES
    /\ retryCount = 0
    /\ waits = <<>>
    /\ simulation = "none"
    /\ attempts = 0
    /\ quoteCalls = 0
    /\ quoteFails = 0
    /\ swapCalls = 0
    /\ swapData = NoData
    /\ tx = NoTx
    /\ signedTx = NoTx
    /\ bhCalls = 0
    /\ sent = <<>>
    /\ failedReported = FALSE
    /\ failedTx = {}
    /\ lastError = "none"
    /\ outcome = Running
    /\ logged = {}
    /\ clock = 0
    /\ interval = FALSE
    /\ timer = FALSE
    /\ lastStatus = "null"
    /\ settledBy = "none"

HarnessIdle == fn = "none" /\ arg = <<>> /\ res = <<>> /\ calls = 0

\* no execution of part_009 is in progress
CacheIdle ==
    /\ tokenMetadataCache = <<>>
    /\ cacheWriter = <<>>
    /\ metaCalls = <<>>
    /\ swapRuns = <<>>

Init ==
    /\ script \in Scripts
    /\ honeyPot \in BOOLEAN
    /\ argsGiven \in BOOLEAN
    /\ amountValid \in BOOLEAN
    /\ PipelineInit
    /\ HarnessIdle
    /\ CacheIdle

----------------------------------------------------------------------------
(* What the aggregator and the network may answer *)

DexIx == [programId |-> "Dex", op |-> "swap", arg |-> 0]
TokenIx == [programId |-> "Token", op |-> "transfer", arg |-> 0]

\* transaction data of a swap response: absent, not a string, a string that
\* does not decode, or the encoding of a versioned / legacy transaction
TxDatas ==
    {[form |-> f, ixs |-> <<>>] : f \in {"missing", "nonstring", "garbage"}}
    \cup {[form |-> f, ixs |-> i] :
            f \in {"versioned", "legacy"},
            i \in {<<DexIx>>,
                   <<setComputeUnitLimit(200000), setComputeUnitPrice(50000), DexIx>>}}

Impacts == {<<>>, <<0>>, <<200>>, <<600>>}

Quotes ==
    {[routerResult |-> FALSE, impact |-> i, compare |-> <<>>, toTokenAmount |-> 1000] :
        i \in Impacts}
    \cup {[routerResult |-> TRUE, impact |-> i, compare |-> c, toTokenAmount |-> a] :
            i \in Impacts,
            c \in {<<>>, <<100>>, <<100, 100>>, <<100, 80>>},
            a \in {1000, 1100}}

\* data[0] of a swap response with code "0"
SwapResponse(id, quote, txData) == [id |-> id, quote |-> quote, txData |-> txData]

FeeSamples == {[ok |-> FALSE, fees |-> <<>>], [ok |-> TRUE, fees |-> <<1000, 2000, 3000>>]}

isString(txData) == txData.form \in {"garbage", "versioned", "legacy"}
decodes(txData) == txData.form \in {"versioned", "legacy"}

----------------------------------------------------------------------------
(* main of every script: the usage message *)

\* main: an argument is missing; print the usage, process.exit(1)
Main_usage ==
    /\ pc = "start"
    /\ ~argsGiven
    /\ pc' = "done"
    /\ outcome' = Failure("usage")
    /\ UNCHANGED <<script, simulation, waits, honeyPot, argsGiven, amountValid, retries, retryCount,
                   attempts, quoteCalls, quoteFails, swapCalls, swapData, tx,
                   signedTx, bhCalls, sent, failedReported, failedTx, lastError,
                   logged, clock, interval, timer, lastStatus, settledBy, hvars, cvars>>

----------------------------------------------------------------------------
(* mev.ts and part_007: executeProtectedSwap *)

\* a delay passed to setTimeout: base is its deterministic part, jitter the
\* part drawn with Math.random, both in ms
Delay(base, jitter) == [base |-> base, jitter |-> jitter]

\* retry(): `setTimeout(resolve, 1000)` whatever the number of retries made
Class_retryDelay == Delay(1000, 0)

\* variant: the wrapper gives up one retry earlier
retryExhausted_early(r) == r <= 1

\* retry(): `if (retries <= 0) throw error`
retryExhausted(r) == r <= 0

\* main's catch: print the message, process.exit(1) (pending timers die)
MainCatch(reason) ==
    /\ pc' = "done"
    /\ outcome' = Failure(reason)
    /\ lastError' = reason
    /\ interval' = FALSE
    /\ timer' = FALSE

\* the catch of retry(): rethrow when no retries are left, else call fn again
RetryCatch(reason) ==
    IF retryExhausted(retries)
    THEN MainCatch(reason) /\ UNCHANGED <<retries, waits>>
    ELSE /\ retries' = retries - 1
         /\ waits' = Append(waits, Class_retryDelay)
         /\ lastError' = reason
         /\ UNCHANGED <<pc, outcome, interval, timer>>

Class_start ==
    /\ script \in ClassScripts
    /\ pc = "start"
    /\ argsGiven
    /\ pc' = "quote"
    /\ UNCHANGED <<script, simulation, waits, honeyPot, argsGiven, amountValid, retries, retryCount, attempts,
                   quoteCalls, quoteFails, swapCalls, swapData, tx, signedTx,
                   bhCalls, sent, failedReported, failedTx, lastError, outcome, logged,
                   clock, interval, timer, lastStatus, settledBy, hvars, cvars>>

\* OKXApi.getTokenInfo throws inside retry()
Class_getTokenInfo_fail ==
    /\ script \in ClassScripts
    /\ pc = "quote"
    /\ quoteCalls' = quoteCalls + 1
    /\ quoteFails' = quoteFails + 1
    /\ RetryCatch("QuoteUnavailable")
    /\ UNCHANGED <<script, simulation, honeyPot, argsGiven, amountValid, retryCount, attempts, swapCalls,
                   swapData, tx, signedTx, bhCalls, sent, failedReported, failedTx, logged,
                   clock, lastStatus, settledBy, hvars, cvars>>

\* OKXApi.getTokenInfo returns; honeypot check, convertAmount, getPriorityFee
Class_getTokenInfo_ok ==
    /\ script \in ClassScripts
    /\ pc = "quote"
    /\ quoteCalls' = quoteCalls + 1
    /\ quoteFails' = 0
    /\ IF honeyPot THEN MainCatch("honeypot") /\ UNCHANGED retries
       ELSE IF ~amountValid THEN MainCatch("invalidAmount") /\ UNCHANGED retries
       ELSE /\ pc' = "swap"
            /\ retries' = MAX_RETRIES
            /\ UNCHANGED <<lastError, outcome, interval, timer>>
    /\ UNCHANGED <<script, simulation, waits, honeyPot, argsGiven, amountValid, retryCount, attempts, swapCalls,
                   swapData, tx, signedTx, bhCalls, sent, failedReported, failedTx, logged,
                   clock, lastStatus, settledBy, hvars, cvars>>

\* OKXApi.getSwapTransaction throws inside retry(): the response is not ok, or
\* its tx.data is missing or not a string
Class_getSwapTransaction_fail ==
    /\ script \in ClassScripts
    /\ pc = "swap"
    /\ swapCalls' = swapCalls + 1
    /\ attempts' = attempts + 1
    /\ \E reason \in {"SwapUnavailable", "invalidTxData"} : RetryCatch(reason)
    /\ UNCHANGED <<script, simulation, honeyPot, argsGiven, amountValid, retryCount, quoteCalls,
                   quoteFails, swapData, tx, signedTx, bhCalls, sent,
                   failedReported, failedTx, logged, clock, lastStatus, settledBy, hvars, cvars>>

validateSwapSafety(s, quote) ==
    IF s = "mev" THEN Mev_validateSwapSafety(quote, 1000)
    ELSE P7_validateSwapSafety(quote)

\* OKXApi.getSwapTransaction returns {txData, quote}; validateSwapSafety
Class_getSwapTransaction_ok ==
    /\ script \in ClassScripts
    /\ pc = "swap"
    /\ swapCalls' = swapCalls + 1
    /\ attempts' = attempts + 1
    /\ \E q \in Quotes, d \in {x \in TxDatas : isString(x)} :
        /\ swapData' = SwapResponse(swapCalls + 1, q, d)
        /\ LET v == validateSwapSafety(script, q)
           IN  IF v.verdict = "reject" THEN MainCatch(v.reason)
               ELSE /\ pc' = "build"
                    /\ UNCHANGED <<lastError, outcome, interval, timer>>
    /\ UNCHANGED <<script, simulation, waits, honeyPot, argsGiven, amountValid, retries, retryCount, quoteCalls,
                   quoteFails, tx, signedTx, bhCalls, sent, failedReported, failedTx,
                   logged, clock, lastStatus, settledBy, hvars, cvars>>

getPriorityFee(s, sample) ==
    IF s = "mev" THEN Mev_getPriorityFee(sample) ELSE P7_getPriorityFee(sample)

\* buildAndSignProtectedTransaction up to the simulation: decode, fetch the
\* block reference, deserialize, set it, add the priority fee
Class_build ==
    /\ script \in ClassScripts
    /\ pc = "build"
    /\ \/ /\ ~decodes(swapData.txData)
          /\ MainCatch("undecodable")
          /\ UNCHANGED <<tx, bhCalls>>
       \/ /\ decodes(swapData.txData)
          /\ MainCatch("rpc")
          /\ UNCHANGED <<tx, bhCalls>>
       \/ /\ decodes(swapData.txData)
          /\ bhCalls' = bhCalls + 1
          /\ \E sample \in FeeSamples :
               tx' = Mev_addPriorityFee(
                        [setRecentBlockhash(
                             Decode(swapData.txData.form, swapData.txData.ixs,
                                    swapData.id),
                             bhCalls + 1)
                            EXCEPT !.feePayerSet = (swapData.txData.form = "legacy")],
                        getPriorityFee(script, sample))
          /\ pc' = "simulate"
          /\ UNCHANGED <<lastError, outcome, interval, timer>>
    /\ UNCHANGED <<script, simulation, waits, honeyPot, argsGiven, amountValid, retries, retryCount, attempts,
                   quoteCalls, quoteFails, swapCalls, swapData, signedTx, sent,
                   failedReported, failedTx, logged, clock, lastStatus, settledBy, hvars, cvars>>

\* simulation.value.err of connection.simulateTransaction: null or an error
SimulationResults == {"ok", "err"}

\* variant: the result of the simulation is not looked at
simulationFailed_ignored(sim) == FALSE

\* MEVProtection.simulateTransaction: `if (simulation.value.err) throw`
simulationFailed(sim) == sim = "err"

\* MEVProtection.simulateTransaction, then sign
Class_simulateAndSign ==
    /\ script \in ClassScripts
    /\ pc = "simulate"
    /\ \E sim \in SimulationResults :
        /\ simulation' = sim
        /\ IF simulationFailed(sim)
           THEN MainCatch("simulation") /\ UNCHANGED tx
           ELSE /\ tx' = Sign(tx)
                /\ pc' = "send"
                /\ UNCHANGED <<lastError, outcome, interval, timer>>
    /\ UNCHANGED <<script, waits, honeyPot, argsGiven, amountValid, retries, retryCount, attempts,
                   quoteCalls, quoteFails, swapCalls, swapData, signedTx, bhCalls,
                   sent, failedReported, failedTx, logged, clock, lastStatus, settledBy, hvars, cvars>>

TxId == Len(sent)

\* mev.ts sendAndConfirmProtectedTransaction: a further priority fee is
\* unshifted into a legacy transaction, then sendRawTransaction(tx.serialize())
Mev_send ==
    /\ script = "mev"
    /\ pc = "send"
    /\ \E sample \in FeeSamples :
         tx' = Mev_unshiftPriorityFee(tx, Mev_getPriorityFee(sample))
    /\ \/ MainCatch("sendFailed") /\ UNCHANGED <<sent, logged>>
       \/ /\ sent' = Append(sent, Submitted(tx'))
          /\ logged' = logged \cup {Len(sent) + 1}
          /\ pc' = "confirm"
          /\ UNCHANGED <<lastError, outcome, interval, timer>>
    /\ UNCHANGED <<script, simulation, waits, honeyPot, argsGiven, amountValid, retries, retryCount, attempts,
                   quoteCalls, quoteFails, swapCalls, swapData, signedTx, bhCalls,
                   failedReported, failedTx, clock, lastStatus, settledBy, hvars, cvars>>

\* part_007 sendAndConfirmProtectedTransaction: sendRawTransaction
P7_send ==
    /\ script = "p7"
    /\ pc = "send"
    /\ \/ MainCatch("sendFailed") /\ UNCHANGED <<sent, logged>>
       \/ /\ sent' = Append(sent, Submitted(tx))
          /\ logged' = logged \cup {Len(sent) + 1}
          /\ pc' = "confirm"
          /\ UNCHANGED <<lastError, outcome, interval, timer>>
    /\ UNCHANGED <<script, simulation, waits, honeyPot, argsGiven, amountValid, retries, retryCount, attempts,
                   quoteCalls, quoteFails, swapCalls, swapData, tx, signedTx,
                   bhCalls, failedReported, failedTx, clock, lastStatus, settledBy, hvars, cvars>>

\* part_007: getLatestBlockhash, confirmTransaction, check of value.err
P7_confirm ==
    /\ script = "p7"
    /\ pc = "confirm"
    /\ \/ /\ pc' = "done"
          /\ outcome' = Success(TxId)
          /\ settledBy' = "confirmTransaction"
          /\ UNCHANGED <<failedReported, failedTx, lastError, interval, timer>>
       \/ /\ failedReported' = TRUE /\ failedTx' = failedTx \cup {TxId}
          /\ settledBy' = "confirmTransaction"
          /\ MainCatch("failed")
       \/ /\ MainCatch("expired")
          /\ settledBy' = "confirmTransaction"
          /\ UNCHANGED <<failedReported, failedTx>>
    /\ UNCHANGED <<script, simulation, waits, honeyPot, argsGiven, amountValid, retries, retryCount, attempts,
                   quoteCalls, quoteFails, swapCalls, swapData, tx, signedTx,
                   bhCalls, sent, logged, clock, lastStatus, hvars, cvars>>

\* mev.ts: getLatestBlockhash('confirmed'), then the status interval and the
\* timeout are scheduled and confirmTransaction is started
Mev_confirmStart ==
    /\ script = "mev"
    /\ pc = "confirm"
    /\ \/ MainCatch("rpc") /\ UNCHANGED clock
       \/ /\ interval' = TRUE
          /\ timer' = TRUE
          /\ clock' = 0
          /\ pc' = "polling"
          /\ UNCHANGED <<lastError, outcome>>
    /\ UNCHANGED <<script, simulation, waits, honeyPot, argsGiven, amountValid, retries, retryCount, attempts,
                   quoteCalls, quoteFails, swapCalls, swapData, tx, signedTx,
                   bhCalls, sent, failedReported, failedTx, logged, lastStatus, settledBy,
                   hvars, cvars>>

\* what getSignatureStatus may answer: it throws, value null, or a status
\* with / without err that is processed or confirmed (finalized)
Statuses == {"throw", "null", "processed", "processedErr", "confirmed", "confirmedErr"}

isConfirmedStatus(st) == st \in {"confirmed", "confirmedErr"}
hasErr(st) == st \in {"processedErr", "confirmedErr"}

\* the interval callback of statusCheckPromise
Mev_statusCheck ==
    /\ script = "mev"
    /\ interval
    /\ clock + CHECK_INTERVAL <= MAX_TIMEOUT
    /\ clock' = clock + CHECK_INTERVAL
    /\ \E st \in Statuses :
        /\ lastStatus' = IF st = "throw" THEN lastStatus ELSE st
        /\ IF st # "throw" /\ isConfirmedStatus(st)
           THEN \* clearInterval; resolve(status)
                IF pc # "polling"
                THEN /\ interval' = FALSE
                     /\ UNCHANGED <<pc, outcome, lastError, timer, failedReported, failedTx, settledBy>>
                ELSE IF hasErr(st)
                THEN /\ failedReported' = TRUE /\ failedTx' = failedTx \cup {TxId}
                     /\ settledBy' = "status"
                     /\ MainCatch("failed")
                ELSE /\ interval' = FALSE
                     /\ pc' = "done"
                     /\ outcome' = Success(TxId)
                     /\ settledBy' = "status"
                     /\ UNCHANGED <<lastError, timer, failedReported, failedTx>>
           ELSE IF st # "throw" /\ hasErr(st)
           THEN \* clearInterval; reject(Transaction failed)
                IF pc # "polling"
                THEN /\ interval' = FALSE
                     /\ UNCHANGED <<pc, outcome, lastError, timer, failedReported, failedTx, settledBy>>
                ELSE /\ failedReported' = TRUE /\ failedTx' = failedTx \cup {TxId}
                     /\ settledBy' = "status"
                     /\ MainCatch("failed")
           ELSE UNCHANGED <<pc, outcome, lastError, interval, timer, failedReported, failedTx,
                            settledBy>>
    /\ UNCHANGED <<script, simulation, waits, honeyPot, argsGiven, amountValid, retries, retryCount, attempts,
                   quoteCalls, quoteFails, swapCalls, swapData, tx, signedTx,
                   bhCalls, sent, logged, hvars, cvars>>

\* variant: the timer rejects with the execution-failure error
timeoutReason_asFailed == "failed"

\* reason of the Error the MAX_TIMEOUT callback rejects with
timeoutReason == "timeout"

\* variant: setTimeout is never called, so no timeout is ever due
timeoutDue_never(c, iv) == FALSE

\* the MAX_TIMEOUT timer is due once no interval tick comes before it
timeoutDue(c, iv) == ~iv \/ c + CHECK_INTERVAL >= MAX_TIMEOUT

\* the setTimeout callback: clearInterval; reject(timeout)
Mev_timeout ==
    /\ script = "mev"
    /\ timer
    /\ timeoutDue(clock, interval)
    /\ clock' = MAX_TIMEOUT
    /\ IF pc = "polling"
       THEN MainCatch(timeoutReason) /\ settledBy' = "timer"
       ELSE /\ timer' = FALSE
            /\ interval' = FALSE
            /\ UNCHANGED <<pc, outcome, lastError, settledBy>>
    /\ UNCHANGED <<script, simulation, waits, honeyPot, argsGiven, amountValid, retries, retryCount, attempts,
                   quoteCalls, quoteFails, swapCalls, swapData, tx, signedTx,
                   bhCalls, sent, failedReported, failedTx, logged, lastStatus, hvars, cvars>>

\* connection.confirmTransaction settles first in Promise.race
Mev_confirmTransaction ==
    /\ script = "mev"
    /\ pc = "polling"
    /\ settledBy' = "confirmTransaction"
    /\ \/ /\ pc' = "done"
          /\ outcome' = Success(TxId)
          /\ UNCHANGED <<failedReported, failedTx, lastError, interval, timer>>
       \/ /\ failedReported' = TRUE /\ failedTx' = failedTx \cup {TxId}
          /\ MainCatch("failed")
       \/ /\ MainCatch("expired")
          /\ UNCHANGED <<failedReported, failedTx>>
    /\ UNCHANGED <<script, simulation, waits, honeyPot, argsGiven, amountValid, retries, retryCount, attempts,
                   quoteCalls, quoteFails, swapCalls, swapData, tx, signedTx,
                   bhCalls, sent, logged, clock, lastStatus, hvars, cvars>>

----------------------------------------------------------------------------
(* part_008 and part_012: main *)

\* the catch of the while loop: `if (retryCount === MAX_RETRIES) throw error`
loopExhausted(n) == n = P8_MAX_RETRIES

\* values of Math.random() * 1000, which lies in [0, 1000)
Jitters == {0, 999}

\* part_008: (2000 * Math.pow(2, retryCount)) + jitter
P8_retryDelay(n, jitter) == Delay(2000 * Pow2(n), jitter)

\* part_012: 2000 * retryCount
P12_retryDelay(n) == Delay(2000 * n, 0)

LoopCatch(reason) ==
    /\ retryCount' = retryCount + 1
    /\ IF loopExhausted(retryCount + 1)
       THEN MainCatch(reason) /\ UNCHANGED waits
       ELSE /\ pc' = "attempt"
            /\ IF script = "p8"
               THEN \E j \in Jitters :
                        waits' = Append(waits, P8_retryDelay(retryCount + 1, j))
               ELSE waits' = Append(waits, P12_retryDelay(retryCount + 1))
            /\ lastError' = reason
            /\ UNCHANGED <<outcome, interval, timer>>

Loop_start ==
    /\ script \in LoopScripts
    /\ pc = "start"
    /\ argsGiven
    /\ pc' = "quote"
    /\ UNCHANGED <<script, simulation, waits, honeyPot, argsGiven, amountValid, retries, retryCount, attempts,
                   quoteCalls, quoteFails, swapCalls, swapData, tx, signedTx,
                   bhCalls, sent, failedReported, failedTx, lastError, outcome, logged,
                   clock, interval, timer, lastStatus, settledBy, hvars, cvars>>

\* getTokenInfo throws: main's catch
Loop_getTokenInfo_fail ==
    /\ script \in LoopScripts
    /\ pc = "quote"
    /\ quoteCalls' = quoteCalls + 1
    /\ quoteFails' = quoteFails + 1
    /\ MainCatch("QuoteUnavailable")
    /\ UNCHANGED <<script, simulation, waits, honeyPot, argsGiven, amountValid, retries, retryCount, attempts,
                   swapCalls, swapData, tx, signedTx, bhCalls, sent,
                   failedReported, failedTx, logged, clock, lastStatus, settledBy, hvars, cvars>>

\* getTokenInfo returns; honeypot check (part_008 only), convertAmount
Loop_getTokenInfo_ok ==
    /\ script \in LoopScripts
    /\ pc = "quote"
    /\ quoteCalls' = quoteCalls + 1
    /\ quoteFails' = 0
    /\ IF script = "p8" /\ honeyPot THEN MainCatch("honeypot")
       ELSE IF ~amountValid THEN MainCatch("invalidAmount")
       ELSE /\ pc' = "swap"
            /\ UNCHANGED <<lastError, outcome, interval, timer>>
    /\ UNCHANGED <<script, simulation, waits, honeyPot, argsGiven, amountValid, retries, retryCount, attempts,
                   swapCalls, swapData, tx, signedTx, bhCalls, sent,
                   failedReported, failedTx, logged, clock, lastStatus, settledBy, hvars, cvars>>

\* the swap request fails: fetch throws, code is not "0", or data[0] is absent
Loop_swap_fail ==
    /\ script \in LoopScripts
    /\ pc = "swap"
    /\ swapCalls' = swapCalls + 1
    /\ MainCatch("SwapUnavailable")
    /\ UNCHANGED <<script, simulation, waits, honeyPot, argsGiven, amountValid, retries, retryCount, attempts,
                   quoteCalls, quoteFails, swapData, tx, signedTx, bhCalls, sent,
                   failedReported, failedTx, logged, clock, lastStatus, settledBy, hvars, cvars>>

\* the swap request answers; price impact protection (part_008 only); the
\* read of swapData.routerResult.toTokenAmount
Loop_swap_ok ==
    /\ script \in LoopScripts
    /\ pc = "swap"
    /\ swapCalls' = swapCalls + 1
    /\ \E q \in Quotes, d \in TxDatas :
        /\ swapData' = SwapResponse(swapCalls + 1, q, d)
        /\ IF script = "p8" /\ P8_priceImpactTooHigh(q) THEN MainCatch("priceImpact")
           ELSE IF ~q.routerResult THEN MainCatch("typeError")
           ELSE /\ pc' = "attempt"
                /\ UNCHANGED <<lastError, outcome, interval, timer>>
    /\ UNCHANGED <<script, simulation, waits, honeyPot, argsGiven, amountValid, retries, retryCount, attempts,
                   quoteCalls, quoteFails, tx, signedTx, bhCalls, sent,
                   failedReported, failedTx, logged, clock, lastStatus, settledBy, hvars, cvars>>

\* one iteration of the while loop up to the signing: check of the
\* transaction data, getLatestBlockhash, decode, set the block reference,
\* buildProtectedTransaction (part_008) or sign (part_012)
Loop_attempt ==
    /\ script \in LoopScripts
    /\ pc = "attempt"
    /\ attempts' = attempts + 1
    /\ \/ /\ ~isString(swapData.txData)
          /\ LoopCatch("invalidTxData")
          /\ UNCHANGED <<tx, bhCalls>>
       \/ /\ isString(swapData.txData)
          /\ LoopCatch("rpc")
          /\ UNCHANGED <<tx, bhCalls>>
       \/ /\ isString(swapData.txData)
          /\ ~decodes(swapData.txData)
          /\ bhCalls' = bhCalls + 1
          /\ LoopCatch("undecodable")
          /\ UNCHANGED tx
       \/ /\ decodes(swapData.txData)
          /\ bhCalls' = bhCalls + 1
          /\ LET decoded ==
                   setRecentBlockhash(
                       Decode(swapData.txData.form, swapData.txData.ixs, swapData.id),
                       bhCalls + 1)
             IN  IF script = "p8"
                 THEN /\ \E sample \in FeeSamples :
                            tx' = buildProtectedTransaction(decoded,
                                        calculatePriorityFee(sample))
                      /\ pc' = "sign"
                 ELSE /\ tx' = Sign(decoded)
                      /\ pc' = "broadcast"
          /\ UNCHANGED <<retryCount, waits, lastError, outcome, interval, timer>>
    /\ UNCHANGED <<script, simulation, honeyPot, argsGiven, amountValid, retries, quoteCalls, quoteFails,
                   swapCalls, swapData, signedTx, sent, failedReported, failedTx, logged,
                   clock, lastStatus, settledBy, hvars, cvars>>

\* part_008: signedTx = Transaction.from(protectedTx); signedTx.partialSign;
\* then the check of protectedTx.signatures (empty on the plain object)
P8_sign ==
    /\ script = "p8"
    /\ pc = "sign"
    /\ \/ LoopCatch("signing") /\ UNCHANGED signedTx
       \/ /\ signedTx' = Sign([tx EXCEPT !.kind = "legacy"])
          /\ IF tx.kind = "object" THEN LoopCatch("noSignatures")
             ELSE /\ pc' = "broadcast"
                  /\ UNCHANGED <<retryCount, waits, lastError, outcome, interval, timer>>
    /\ UNCHANGED <<script, simulation, honeyPot, argsGiven, amountValid, retries, attempts, quoteCalls,
                   quoteFails, swapCalls, swapData, tx, bhCalls, sent,
                   failedReported, failedTx, logged, clock, lastStatus, settledBy, hvars, cvars>>

\* broadcastProtectedTransaction (part_008) / sendRawTransaction (part_012)
Loop_broadcast ==
    /\ script \in LoopScripts
    /\ pc = "broadcast"
    /\ \/ LoopCatch("sendFailed") /\ UNCHANGED sent
       \/ /\ sent' = Append(sent, Submitted(tx))
          /\ pc' = "confirm"
          /\ UNCHANGED <<retryCount, waits, lastError, outcome, interval, timer>>
    /\ UNCHANGED <<script, simulation, honeyPot, argsGiven, amountValid, retries, attempts, quoteCalls,
                   quoteFails, swapCalls, swapData, tx, signedTx, bhCalls,
                   failedReported, failedTx, logged, clock, lastStatus, settledBy, hvars, cvars>>

\* confirmTransaction and the check of confirmation.value.err
Loop_confirm ==
    /\ script \in LoopScripts
    /\ pc = "confirm"
    /\ settledBy' = "confirmTransaction"
    /\ \/ /\ pc' = "done"
          /\ outcome' = Success(TxId)
          /\ logged' = logged \cup {TxId}
          /\ UNCHANGED <<retryCount, waits, failedReported, failedTx, lastError, interval, timer>>
       \/ /\ failedReported' = TRUE /\ failedTx' = failedTx \cup {TxId}
          /\ LoopCatch("failed")
          /\ UNCHANGED logged
       \/ /\ LoopCatch("expired")
          /\ UNCHANGED <<failedReported, failedTx, logged>>
    /\ UNCHANGED <<script, simulation, honeyPot, argsGiven, amountValid, retries, attempts, quoteCalls,
                   quoteFails, swapCalls, swapData, tx, signedTx, bhCalls, sent,
                   clock, lastStatus, hvars, cvars>>

----------------------------------------------------------------------------
(* solana-swap-instructions-okx.ts: executeProtectedSwap *)

\* the amount is converted without a check and the swap-instruction request
\* is sent; no quote is fetched
Okx_swap ==
    /\ script = "okx"
    /\ pc = "start"
    /\ argsGiven
    /\ swapCalls' = swapCalls + 1
    /\ attempts' = attempts + 1
    /\ \/ MainCatch("SwapUnavailable") /\ UNCHANGED swapData
       \/ /\ \E i \in {<<DexIx>>, <<TokenIx, DexIx, TokenIx>>} :
                swapData' = SwapResponse(swapCalls + 1,
                    [routerResult |-> FALSE, impact |-> <<>>, compare |-> <<>>,
                     toTokenAmount |-> 1000],
                    [form |-> "instructions", ixs |-> i])
          /\ pc' = "build"
          /\ UNCHANGED <<lastError, outcome, interval, timer>>
    /\ UNCHANGED <<script, simulation, waits, honeyPot, argsGiven, amountValid, retries, retryCount, quoteCalls,
                   quoteFails, tx, signedTx, bhCalls, sent, failedReported, failedTx, logged,
                   clock, lastStatus, settledBy, hvars, cvars>>

\* new Transaction with a fresh block reference, the two directives, then the
\* setup / swap / cleanup instructions of the response; partialSign
Okx_build ==
    /\ script = "okx"
    /\ pc = "build"
    /\ \/ MainCatch("rpc") /\ UNCHANGED <<tx, bhCalls>>
       \/ /\ bhCalls' = bhCalls + 1
          /\ tx' = Sign([setRecentBlockhash(
                               Decode("legacy",
                                      <<setComputeUnitPrice(1500000),
                                        setComputeUnitLimit(1400000)>>
                                          \o swapData.txData.ixs,
                                      swapData.id),
                               bhCalls + 1)
                           EXCEPT !.feePayerSet = TRUE])
          /\ pc' = "broadcast"
          /\ UNCHANGED <<lastError, outcome, interval, timer>>
    /\ UNCHANGED <<script, simulation, waits, honeyPot, argsGiven, amountValid, retries, retryCount, attempts,
                   quoteCalls, quoteFails, swapCalls, swapData, signedTx, sent,
                   failedReported, failedTx, logged, clock, lastStatus, settledBy, hvars, cvars>>

Okx_broadcast ==
    /\ script = "okx"
    /\ pc = "broadcast"
    /\ \/ MainCatch("sendFailed") /\ UNCHANGED sent
       \/ /\ sent' = Append(sent, Submitted(tx))
          /\ pc' = "confirm"
          /\ UNCHANGED <<lastError, outcome, interval, timer>>
    /\ UNCHANGED <<script, simulation, waits, honeyPot, argsGiven, amountValid, retries, retryCount, attempts,
                   quoteCalls, quoteFails, swapCalls, swapData, tx, signedTx,
                   bhCalls, failedReported, failedTx, logged, clock, lastStatus, settledBy,
                   hvars, cvars>>

\* await connection.confirmTransaction(signature, 'confirmed'): the result is
\* not inspected; the signature is returned
Okx_confirm ==
    /\ script = "okx"
    /\ pc = "confirm"
    /\ settledBy' = "confirmTransaction"
    /\ \/ /\ \E err \in BOOLEAN :
               /\ failedReported' = err
               /\ failedTx' = IF err THEN failedTx \cup {TxId} ELSE failedTx
          /\ pc' = "done"
          /\ outcome' = Success(TxId)
          /\ logged' = logged \cup {TxId}
          /\ UNCHANGED <<lastError, interval, timer>>
       \/ /\ MainCatch("expired")
          /\ UNCHANGED <<failedReported, failedTx, logged>>
    /\ UNCHANGED <<script, simulation, waits, honeyPot, argsGiven, amountValid, retries, retryCount, attempts,
                   quoteCalls, quoteFails, swapCalls, swapData, tx, signedTx,
                   bhCalls, sent, clock, lastStatus, hvars, cvars>>

----------------------------------------------------------------------------

Next ==
    \/ Main_usage
    \/ Class_start
    \/ Class_getTokenInfo_fail
    \/ Class_getTokenInfo_ok
    \/ Class_getSwapTransaction_fail
    \/ Class_getSwapTransaction_ok
    \/ Class_build
    \/ Class_simulateAndSign
    \/ Mev_send
    \/ P7_send
    \/ P7_confirm
    \/ Mev_confirmStart
    \/ Mev_statusCheck
    \/ Mev_timeout
    \/ Mev_confirmTransaction
    \/ Loop_start
    \/ Loop_getTokenInfo_fail
    \/ Loop_getTokenInfo_ok
    \/ Loop_swap_fail
    \/ Loop_swap_ok
    \/ Loop_attempt
    \/ P8_sign
    \/ Loop_broadcast
    \/ Loop_confirm
    \/ Okx_swap
    \/ Okx_build
    \/ Okx_broadcast
    \/ Okx_confirm

Spec == Init /\ [][Next]_vars

----------------------------------------------------------------------------
(* solana-swap-mev.ts: sendAndConfirmProtectedTransaction from the moment   *)
(* sendRawTransaction returned the transaction id.                           *)

\* a quote validateSwapSafety accepts
AcceptedQuote ==
    [routerResult |-> TRUE, impact |-> <<0>>, compare |-> <<100, 100>>,
     toTokenAmount |-> 1000]

\* the transaction solana-swap-mev.ts broadcasts for transaction data d
Mev_broadcastOf(d, sample) ==
    Mev_unshiftPriorityFee(
        Sign(Mev_addPriorityFee(
                [setRecentBlockhash(Decode(d.form, d.ixs, 1), 1)
                    EXCEPT !.feePayerSet = (d.form = "legacy")],
                Mev_getPriorityFee(sample))),
        Mev_getPriorityFee(sample))

\* the state Mev_send leaves when the first quote, the first swap request and
\* the broadcast all succeeded
WaitInit ==
    /\ HarnessIdle
    /\ CacheIdle
    /\ script = "mev"
    /\ honeyPot = FALSE
    /\ argsGiven = TRUE
    /\ amountValid = TRUE
    /\ pc = "confirm"
    /\ retries = MAX_RETRIES
    /\ retryCount = 0
    /\ waits = <<>>
    /\ simulation = "ok"
    /\ attempts = 1
    /\ quoteCalls = 1
    /\ quoteFails = 0
    /\ swapCalls = 1
    /\ bhCalls = 1
    /\ signedTx = NoTx
    /\ failedReported = FALSE
    /\ failedTx = {}
    /\ lastError = "none"
    /\ outcome = Running
    /\ logged = {1}
    /\ clock = 0
    /\ interval = FALSE
    /\ timer = FALSE
    /\ lastStatus = "null"
    /\ settledBy = "none"
    /\ \E d \in {x \in TxDatas : decodes(x)}, sample \in FeeSamples :
         /\ swapData = SwapResponse(1, AcceptedQuote, d)
         /\ tx = Mev_broadcastOf(d, sample)
         /\ sent = <<Submitted(tx)>>

WaitNext ==
    \/ Mev_confirmStart
    \/ Mev_statusCheck
    \/ Mev_timeout
    \/ Mev_confirmTransaction

\* the event loop of Node runs every timer callback that is due: the interval
\* callback and the timeout callback of sendAndConfirmProtectedTransaction
WaitSpec ==
    WaitInit /\ [][WaitNext]_vars /\ WF_vars(Mev_statusCheck) /\ WF_vars(Mev_timeout)

----------------------------------------------------------------------------
(* solana-swap-instructions.ts: main.  The script takes no argument: the    *)
(* swap parameters are written in the source.  main() is called without a   *)
(* catch, so a rejection ends the process.                                   *)

\* instructionLists of the response, converted to TransactionInstruction
InstrIxLists == SeqsUpTo({DexIx, TokenIx}, 2)

\* number of distinct addressLookupTableAddresses of the response
LookupTableCounts == {0, 1, 2}

\* a rejection that nothing catches
Instr_reject(reason) == MainCatch(reason)

\* new VersionedTransaction(new TransactionMessage({...}).compileToV0Message())
NewVersionedTransaction(ixs, payloadId, bh) ==
    [kind |-> "versioned", instructions |-> ixs, recentBlockhash |-> bh,
     feePayerSet |-> TRUE, signed |-> FALSE, signedIxs |-> <<>>,
     payload |-> payloadId]

InstrInit ==
    /\ HarnessIdle
    /\ CacheIdle
    /\ script = "instr"
    /\ honeyPot = FALSE
    /\ argsGiven \in BOOLEAN
    /\ amountValid = TRUE
    /\ PipelineInit

\* the swap-instruction request: fetch rejects or the response has no data
\* (the destructuring throws), or the instructions and the lookup tables
Instr_fetch ==
    /\ script = "instr"
    /\ pc = "start"
    /\ swapCalls' = swapCalls + 1
    /\ attempts' = attempts + 1
    /\ \/ Instr_reject("SwapUnavailable") /\ UNCHANGED swapData
       \/ /\ \E i \in InstrIxLists, n \in LookupTableCounts :
                swapData' = SwapResponse(swapCalls + 1,
                    [routerResult |-> FALSE, impact |-> <<>>, compare |-> <<>>,
                     toTokenAmount |-> 1000],
                    [form |-> "instructions", ixs |-> i, luts |-> n])
          /\ pc' = "lookup"
          /\ UNCHANGED <<lastError, outcome, interval, timer>>
    /\ UNCHANGED <<script, honeyPot, argsGiven, amountValid, retries, retryCount,
                   waits, simulation, quoteCalls, quoteFails, tx, signedTx, bhCalls,
                   sent, failedReported, failedTx, logged, clock, lastStatus,
                   settledBy, hvars, cvars>>

\* Promise.all of getAddressLookupTable: an account that is null throws
Instr_loadLookupTables ==
    /\ script = "instr"
    /\ pc = "lookup"
    /\ \/ /\ swapData.txData.luts > 0
          /\ Instr_reject("lookupTable")
       \/ /\ pc' = "build"
          /\ UNCHANGED <<lastError, outcome, interval, timer>>
    /\ UNCHANGED <<script, honeyPot, argsGiven, amountValid, retries, retryCount,
                   waits, simulation, attempts, quoteCalls, quoteFails, swapCalls,
                   swapData, tx, signedTx, bhCalls, sent, failedReported, failedTx,
                   logged, clock, lastStatus, settledBy, hvars, cvars>>

\* getLatestBlockhash('finalized'), the v0 message, the VersionedTransaction
Instr_build ==
    /\ script = "instr"
    /\ pc = "build"
    /\ \/ Instr_reject("rpc") /\ UNCHANGED <<tx, bhCalls>>
       \/ /\ bhCalls' = bhCalls + 1
          /\ tx' = NewVersionedTransaction(swapData.txData.ixs, swapData.id,
                                           bhCalls + 1)
          /\ pc' = "simulate"
          /\ UNCHANGED <<lastError, outcome, interval, timer>>
    /\ UNCHANGED <<script, honeyPot, argsGiven, amountValid, retries, retryCount,
                   waits, simulation, attempts, quoteCalls, quoteFails, swapCalls,
                   swapData, signedTx, sent, failedReported, failedTx, logged,
                   clock, lastStatus, settledBy, hvars, cvars>>

\* connection.simulateTransaction answers; `result` is kept for the log at the
\* end and transaction.sign([feePayer]) follows whatever result.value.err is
Instr_simulateAndSign ==
    /\ script = "instr"
    /\ pc = "simulate"
    /\ \/ Instr_reject("rpc") /\ UNCHANGED <<tx, simulation>>
       \/ /\ \E sim \in SimulationResults : simulation' = sim
          /\ tx' = Sign(tx)
          /\ pc' = "send"
          /\ UNCHANGED <<lastError, outcome, interval, timer>>
    /\ UNCHANGED <<script, honeyPot, argsGiven, amountValid, retries, retryCount,
                   waits, attempts, quoteCalls, quoteFails, swapCalls, swapData,
                   signedTx, bhCalls, sent, failedReported, failedTx, logged,
                   clock, lastStatus, settledBy, hvars, cvars>>

\* sendRawTransaction(transaction.serialize()); the logs; process.exit(0)
Instr_send ==
    /\ script = "instr"
    /\ pc = "send"
    /\ \/ Instr_reject("sendFailed") /\ UNCHANGED <<sent, logged>>
       \/ /\ sent' = Append(sent, Submitted(tx))
          /\ logged' = logged \cup {Len(sent) + 1}
          /\ pc' = "done"
          /\ outcome' = Success(Len(sent) + 1)
          /\ UNCHANGED <<lastError, interval, timer>>
    /\ UNCHANGED <<script, honeyPot, argsGiven, amountValid, retries, retryCount,
                   waits, simulation, attempts, quoteCalls, quoteFails, swapCalls,
                   swapData, tx, signedTx, bhCalls, failedReported, failedTx,
                   clock, lastStatus, settledBy, hvars, cvars>>

InstrNext ==
    \/ Instr_fetch
    \/ Instr_loadLookupTables
    \/ Instr_build
    \/ Instr_simulateAndSign
    \/ Instr_send

InstrSpec == InstrInit /\ [][InstrNext]_vars

----------------------------------------------------------------------------
(* Functions checked on their own: the validators and the augmenters, each  *)
(* applied to every input of a bounded set.                                  *)

\* applications of an augmenter to one transaction
MaxApply == 2

HarnessImpacts == Impacts \cup {<<150>>, <<300>>, <<500>>}

HarnessQuotes ==
    [routerResult : BOOLEAN, impact : HarnessImpacts,
     compare : SeqsUpTo({80, 100}, MaxCompare), toTokenAmount : {1000, 1100}]

\* most fractional digits of an amount argument
MaxFrac == 2

HarnessAmounts ==
    {NaNAmount} \cup {Amount(n, f) : n \in {0 - 15, 0 - 1, 0, 1, 15}, f \in 0..MaxFrac}

\* decimals of the source token, as the quote reports them; the largest keeps
\* amount * 10^decimals within the 32-bit integers of TLC
HarnessDecimals == {0, 1, 6, 8}

\* longest window of recent prioritization fees
MaxFees == 3

\* what getRecentPrioritizationFees yields, in micro-lamports
HarnessFeeSamples ==
    {[ok |-> FALSE, fees |-> <<>>]}
    \cup {[ok |-> TRUE, fees |-> f] : f \in SeqsUpTo({0, 1, 1000, 2000, 3000}, MaxFees)}

QuoteClients == {"Mev_getTokenInfo", "OkxNew_getTokenInfo"}
SwapClients == {"Mev_getSwapTransaction"}

FeeEstimators == {"Mev_getPriorityFee", "P7_getPriorityFee", "calculatePriorityFee"}

HarnessTxs ==
    {Decode(k, i, 1) : k \in {"versioned", "legacy"}, i \in SeqsUpTo(PayloadIx, MaxIx)}

PipelineIdle ==
    /\ script = "mev"
    /\ honeyPot = FALSE
    /\ argsGiven = TRUE
    /\ amountValid = TRUE
    /\ PipelineInit

FnInit ==
    /\ PipelineIdle
    /\ CacheIdle
    /\ calls = 0
    /\ \/ fn \in {"Mev_validateSwapSafety", "P7_validateSwapSafety"}
          /\ arg \in HarnessQuotes
          /\ res = Accept(FALSE)
       \/ fn \in {"buildProtectedTransaction", "Mev_augment"}
          /\ arg \in HarnessTxs
          /\ res = arg
       \/ fn \in FeeEstimators
          /\ arg \in HarnessFeeSamples
          /\ res = 0
       \/ fn \in QuoteClients \cup SwapClients
          /\ arg \in Responses
          /\ res = Returned
       \/ fn = "convertAmount"
          /\ arg \in [amount : HarnessAmounts, decimals : HarnessDecimals]
          /\ res = InvalidAmount

\* validateSwapSafety applied to the quote
Fn_validate ==
    /\ fn \in {"Mev_validateSwapSafety", "P7_validateSwapSafety"}
    /\ calls = 0
    /\ calls' = 1
    /\ res' = IF fn = "Mev_validateSwapSafety"
              THEN Mev_validateSwapSafety(arg, 1000)
              ELSE P7_validateSwapSafety(arg)
    /\ UNCHANGED <<fn, arg, pvars, cvars>>

\* part_008 buildProtectedTransaction applied to the transaction it returned
Fn_buildProtectedTransaction ==
    /\ fn = "buildProtectedTransaction"
    /\ calls < MaxApply
    /\ calls' = calls + 1
    /\ \E sample \in FeeSamples :
         res' = buildProtectedTransaction(res, calculatePriorityFee(sample))
    /\ UNCHANGED <<fn, arg, pvars, cvars>>

\* mev.ts: the priority fee added by buildAndSignProtectedTransaction
Fn_addPriorityFee ==
    /\ fn = "Mev_augment"
    /\ calls < MaxApply
    /\ calls' = calls + 1
    /\ \E sample \in FeeSamples :
         res' = Mev_addPriorityFee(res, Mev_getPriorityFee(sample))
    /\ UNCHANGED <<fn, arg, pvars, cvars>>

\* mev.ts: the priority fee added by sendAndConfirmProtectedTransaction
Fn_unshiftPriorityFee ==
    /\ fn = "Mev_augment"
    /\ calls < MaxApply
    /\ calls' = calls + 1
    /\ \E sample \in FeeSamples :
         res' = Mev_unshiftPriorityFee(res, Mev_getPriorityFee(sample))
    /\ UNCHANGED <<fn, arg, pvars, cvars>>

\* convertAmount applied to the amount argument and the token's decimals
Fn_convertAmount ==
    /\ fn = "convertAmount"
    /\ calls = 0
    /\ calls' = 1
    /\ res' = convertAmount(arg.amount, arg.decimals)
    /\ UNCHANGED <<fn, arg, pvars, cvars>>

\* the fee estimator of a script applied to a window of recent fees; the
\* result is in tenths of a micro-lamport
Fn_getPriorityFee ==
    /\ fn \in FeeEstimators
    /\ calls = 0
    /\ calls' = 1
    /\ res' = IF fn = "Mev_getPriorityFee" THEN Mev_getPriorityFee(arg)
              ELSE IF fn = "P7_getPriorityFee" THEN P7_getPriorityFee(arg)
              ELSE calculatePriorityFee(arg)
    /\ UNCHANGED <<fn, arg, pvars, cvars>>

\* a client of the aggregator applied to the response it received
Fn_client ==
    /\ fn \in QuoteClients \cup SwapClients
    /\ calls = 0
    /\ calls' = 1
    /\ res' = IF fn = "Mev_getTokenInfo" THEN Mev_getTokenInfo(arg)
              ELSE IF fn = "OkxNew_getTokenInfo" THEN OkxNew_getTokenInfo(arg)
              ELSE Mev_getSwapTransaction(arg)
    /\ UNCHANGED <<fn, arg, pvars, cvars>>

FnNext ==
    \/ Fn_client
    \/ Fn_getPriorityFee
    \/ Fn_convertAmount
    \/ Fn_validate
    \/ Fn_buildProtectedTransaction
    \/ Fn_addPriorityFee
    \/ Fn_unshiftPriorityFee

FnSpec == FnInit /\ [][FnNext]_vars

----------------------------------------------------------------------------
(* part_009: executions of the exported executeProtectedSwap that run in    *)
(* one process. tokenMetadataCache is a Map of the module, so every          *)
(* execution reads and writes the same one.                                  *)

\* the executions in progress
Execs == {1, 2}
\* executeProtectedSwap asks for the metadata of fromToken and of toToken
Sides == {"from", "to"}

NativeSol == "11111111111111111111111111111111"
TokenAddresses == {NativeSol, "USDC", "BONK"}

NoMeta == [found |-> FALSE, decimals |-> 0]
Meta(d) == [found |-> TRUE, decimals |-> d]

\* NATIVE_SOL_METADATA
NATIVE_SOL_METADATA == Meta(9)

\* what the token list may hold for an address when it is fetched: no entry,
\* or an entry with the decimals it lists at that time
ListedMeta == {NoMeta, Meta(5), Meta(6)}

NoCache == [a \in TokenAddresses |-> NoMeta]

\* a call of getTokenMetadata: readFrom is the execution whose entry of the
\* Map it returned, 0 when it returned a constant or what it fetched itself
MetaCall(address) ==
    [pc |-> "called", address |-> address, meta |-> NoMeta, readFrom |-> 0]

CacheInit ==
    /\ PipelineIdle
    /\ HarnessIdle
    /\ tokenMetadataCache = NoCache
    /\ cacheWriter = [a \in TokenAddresses |-> 0]
    /\ metaCalls \in [Execs \X Sides -> {MetaCall(a) : a \in TokenAddresses}]
    /\ swapRuns = [e \in Execs |-> [pc |-> "metadata", amount |-> 1, inputAmount |-> 0]]

\* getTokenMetadata up to its first await: native SOL, a hit of the cache, or
\* the request for the token list
Meta_call(e, s) ==
    /\ metaCalls[<<e, s>>].pc = "called"
    /\ LET a == metaCalls[<<e, s>>].address
       IN  metaCalls' =
             [metaCalls EXCEPT ![<<e, s>>] =
                IF a = NativeSol
                THEN [@ EXCEPT !.pc = "returned", !.meta = NATIVE_SOL_METADATA]
                ELSE IF tokenMetadataCache[a].found
                THEN [@ EXCEPT !.pc = "returned", !.meta = tokenMetadataCache[a],
                               !.readFrom = cacheWriter[a]]
                ELSE [@ EXCEPT !.pc = "fetching"]]
    /\ UNCHANGED <<tokenMetadataCache, cacheWriter, swapRuns, pvars, hvars>>

\* getTokenMetadata after the token list arrived: throw when the address is
\* not in it, else set the entry of the cache and return it
Meta_fetched(e, s) ==
    /\ metaCalls[<<e, s>>].pc = "fetching"
    /\ LET a == metaCalls[<<e, s>>].address
       IN  \E m \in ListedMeta :
             IF ~m.found
             THEN /\ metaCalls' = [metaCalls EXCEPT ![<<e, s>>].pc = "thrown"]
                  /\ UNCHANGED <<tokenMetadataCache, cacheWriter>>
             ELSE /\ tokenMetadataCache' = [tokenMetadataCache EXCEPT ![a] = m]
                  /\ cacheWriter' = [cacheWriter EXCEPT ![a] = e]
                  /\ metaCalls' = [metaCalls EXCEPT ![<<e, s>>] =
                                     [@ EXCEPT !.pc = "returned", !.meta = m]]
    /\ UNCHANGED <<swapRuns, pvars, hvars>>

\* executeProtectedSwap: Promise.all resolved; the amount is converted with
\* the decimals of fromTokenMeta and the quote is requested
Swap_convert(e) ==
    /\ swapRuns[e].pc = "metadata"
    /\ \A s \in Sides : metaCalls[<<e, s>>].pc = "returned"
    /\ swapRuns' = [swapRuns EXCEPT ![e] =
                      [@ EXCEPT !.pc = "quote",
                                !.inputAmount =
                                    swapRuns[e].amount * Pow10(metaCalls[<<e, "from">>].meta.decimals)]]
    /\ UNCHANGED <<tokenMetadataCache, cacheWriter, metaCalls, pvars, hvars>>

\* executeProtectedSwap: Promise.all rejected; the catch rethrows
Swap_failed(e) ==
    /\ swapRuns[e].pc = "metadata"
    /\ \E s \in Sides : metaCalls[<<e, s>>].pc = "thrown"
    /\ swapRuns' = [swapRuns EXCEPT ![e].pc = "failed"]
    /\ UNCHANGED <<tokenMetadataCache, cacheWriter, metaCalls, pvars, hvars>>

CacheNext ==
    \/ \E e \in Execs, s \in Sides : Meta_call(e, s)
    \/ \E e \in Execs, s \in Sides : Meta_fetched(e, s)
    \/ \E e \in Execs : Swap_convert(e)
    \/ \E e \in Execs : Swap_failed(e)

CacheSpec == CacheInit /\ [][CacheNext]_vars

----------------------------------------------------------------------------
(* Claims *)

\* C1: whenever the destination token is flagged high-risk, the run ends in
\* an error and no transaction is built, signed or broadcast.
C1_HoneypotAlwaysRejected ==
    honeyPot =>
        /\ tx = NoTx
        /\ sent = <<>>
        /\ (pc = "done" => outcome.status = "error")

\* C2: once the network has reported an execution error for a broadcast
\* transaction, the invocation broadcasts no further transaction.
C2_FailedNeverRebroadcast == [][failedReported => (sent' = sent)]_vars

\* the price impact the script reads exceeds the maximum it is configured with
ExceedsMaxImpact(s, quote) ==
    /\ quote.impact # <<>>
    /\ \/ s = "mev" /\ quote.impact[1] > MAX_PRICE_IMPACT_BPS
       \/ s = "p7" /\ quote.routerResult /\ quote.impact[1] > P7_MAX_PRICE_IMPACT
       \/ s = "p8" /\ quote.impact[1] > P8_MAX_PRICE_IMPACT

C4_FewVenuesRejected ==
    (/\ fn \in {"Mev_validateSwapSafety", "P7_validateSwapSafety"}
     /\ calls = 1
     /\ arg.routerResult
     /\ Len(arg.compare) < MIN_ROUTE_SPLITS)
    => /\ res.verdict = "reject"
       /\ res.reason \in {"diversity", "noQuotes", "priceImpact"}

\* C5 as stated: after MAX_RETRIES consecutive failed quote requests the
\* terminal failure is surfaced.
C5_TerminalAfterNFailures ==
    (script \in ClassScripts /\ quoteFails >= MAX_RETRIES) => outcome.status = "error"

\* C5 as amended: retry() makes the first quote request and MAX_RETRIES
\* retries; the terminal failure is surfaced after exactly MAX_RETRIES + 1
\* consecutive failures and no further request is made, while after fewer
\* failures the request is made again.
C5_TerminalAfterNPlusOneFailures ==
    script \in ClassScripts =>
        /\ quoteCalls <= MAX_RETRIES + 1
        /\ (quoteFails = MAX_RETRIES + 1) =>
                (pc = "done" /\ outcome = Failure("QuoteUnavailable"))
        /\ (quoteFails \in 1..MAX_RETRIES) =>
                (pc = "quote" /\ outcome.status = "running")

C5_Witness ==
    /\ script \in ClassScripts
    /\ quoteFails = MAX_RETRIES + 1
    /\ quoteCalls = MAX_RETRIES + 1
    /\ pc = "done"

\* hard safety rejections and malformed-payload conditions
NeverRetried ==
    {"honeypot", "priceImpact", "diversity", "noQuotes", "invalidQuote",
     "invalidTxData", "undecodable"}

\* C6: once a hard safety rejection or a malformed-payload condition has been
\* raised, no further attempt is started and no further swap request is sent.
C6_NoAttemptAfterFatalError ==
    [][(lastError \in NeverRetried) =>
            (attempts' = attempts /\ swapCalls' = swapCalls)]_vars

\* C7: every transaction that was broadcast holds exactly one priority-fee
\* directive and exactly one compute-budget directive.
C7_SentHasOneDirectiveEach ==
    \A i \in 1..Len(sent) :
        /\ Count(sent[i].instructions, isPriceIx) = 1
        /\ Count(sent[i].instructions, isLimitIx) = 1

\* C8: a transaction that was augmented twice holds at most one priority-fee
\* directive and at most one compute-budget directive.
C8_AugmentTwiceNoDuplicates ==
    (fn \in {"buildProtectedTransaction", "Mev_augment"} /\ calls = MaxApply)
    => NumPriceIx(res) <= 1 /\ NumLimitIx(res) <= 1

\* C9: the augmented transaction holds the instructions of the payload that
\* are neither directive, each as often as the payload and in its order.
C9_AugmentPreservesInstructions ==
    (fn = "buildProtectedTransaction" /\ calls >= 1)
    => Filter(res.instructions, isOtherIx) = Filter(arg.instructions, isOtherIx)

\* C10 as stated: a confirmation wait ended by the timeout returns the
\* transaction identifier to the caller.
C10_TimeoutReturnsTxId ==
    settledBy = "timer" => outcome.txId # 0

\* C10 as amended: when the MAX_TIMEOUT timer ends the wait, no terminal
\* status having been observed, the caller gets the timeout error, not the
\* execution failure; the error carries no transaction identifier, which has
\* been printed with its explorer URL, and the process exits with code 1.
C10_TimeoutIsDistinctAndLogged ==
    settledBy = "timer" =>
        /\ clock = MAX_TIMEOUT
        /\ lastStatus \in {"null", "processed"}
        /\ pc = "done"
        /\ outcome = Failure("timeout")
        /\ ~failedReported
        /\ Len(sent) = 1
        /\ TxId \in logged

C10_Witness ==
    /\ settledBy = "timer"
    /\ pc = "done"
    /\ lastStatus = "processed"
    /\ clock = MAX_TIMEOUT

\* C11: a run that returns a transaction identifier as a success returns one
\* for which no confirmation result carried an execution error.
C11_SuccessOnlyWithoutError ==
    outcome.status = "ok" => outcome.txId \notin failedTx

\* C12: every retry attempt re-runs quote acquisition first: once a second
\* attempt has begun, the quote endpoint has been requested at least once for
\* each attempt begun.
C12_RetryRestartsFromQuote ==
    attempts >= 2 => quoteCalls >= attempts

\* C13: an attempt that builds its transaction after an earlier attempt built
\* one does not build it from the same swap-endpoint response.
C13_PayloadNeverReused ==
    [][(attempts' > attempts /\ tx.kind # "none" /\ tx' # tx)
            => (tx'.payload # tx.payload)]_vars

C15_InvalidAmountBeforeNetwork ==
    (argsGiven /\ ~amountValid) =>
        /\ quoteCalls = 0
        /\ swapCalls = 0
        /\ pc = "done" => outcome = Failure("invalidAmount")

\* C16: an amount that convertAmount accepts is converted to the integer
\* floor(amount * 10^decimals), and that integer is greater than zero.
C16_ConvertedIsPositiveFloor ==
    (fn = "convertAmount" /\ calls = 1 /\ res.ok) =>
        /\ res.value * Pow10(arg.amount.frac)
                <= arg.amount.num * Pow10(arg.decimals)
        /\ (res.value + 1) * Pow10(arg.amount.frac)
                > arg.amount.num * Pow10(arg.decimals)
        /\ res.value > 0

\* C17: for a non-empty window the estimate of part_007 is
\* min(max(maximum fee, median fee * PRIORITY_MULTIPLIER), MAX_PRIORITY_FEE),
\* raised to MIN_PRIORITY_FEE if lower (results are in tenths).
C17_EstimateIsClampedMaxOfMaxAndMedian ==
    (fn = "P7_getPriorityFee" /\ calls = 1 /\ arg.ok /\ arg.fees # <<>>) =>
        res = 10 * Max(MIN_PRIORITY_FEE,
                       Min(Max(SeqMax(arg.fees),
                               medianFee(arg.fees) * PRIORITY_MULTIPLIER),
                           MAX_PRIORITY_FEE))

\* C18: every estimate of part_007 and part_008, whatever the window, is a
\* whole number of micro-lamports that is at least the minimum and at most
\* the maximum fee of the script (results are in tenths).
C18_EstimateWithinBounds ==
    /\ (fn = "P7_getPriorityFee" /\ calls = 1) =>
            /\ res % 10 = 0
            /\ res >= 10 * MIN_PRIORITY_FEE
            /\ res <= 10 * MAX_PRIORITY_FEE
    /\ (fn = "calculatePriorityFee" /\ calls = 1) =>
            /\ res % 10 = 0
            /\ res >= 0
            /\ res <= 10 * PRIORITY_VERY_HIGH

\* C19: a client that received a response with a non-success status, an
\* envelope code other than "0" or no first data element, a quote client that
\* received one without token descriptors and a swap client that received one
\* without transaction bytes, throws, so that no later stage runs.
C19_MalformedResponseIsFailure ==
    (/\ fn \in QuoteClients \cup SwapClients
     /\ calls = 1
     /\ \/ ~arg.httpOk
        \/ arg.code # "0"
        \/ ~arg.data0
        \/ fn \in QuoteClients /\ ~arg.tokens
        \/ fn \in SwapClients /\ arg.txData # "string")
    => ~res.ok

\* C20: a process that has ended exits with code 0 when it broadcast a
\* transaction whose confirmation carried no error, and with code 1 in every
\* other case: a missing argument, a rejection, a timeout, a failure.
C20_ExitCodeZeroIffConfirmed ==
    pc = "done" =>
        /\ outcome.exit \in {"0", "1"}
        /\ outcome.exit = "0" <=>
                /\ outcome.status = "ok"
                /\ outcome.txId = Len(sent)
                /\ Len(sent) >= 1
                /\ outcome.txId \notin failedTx

\* C21: executions running in one process share no mutable state: a call of
\* getTokenMetadata never returns an entry that another execution wrote.
C21_ExecutionsShareNoState ==
    \A c \in DOMAIN metaCalls :
        metaCalls[c].pc = "returned" => metaCalls[c].readFrom \in {0, c[1]}

\* the quote with every amountOut of its comparison list made equal, so that
\* its variance is zero
FlatQuote(quote) ==
    [quote EXCEPT !.compare = [i \in 1..Len(quote.compare) |-> 100]]

\* |max(outputs) - mean(outputs)| / max(outputs) > pct / 100
VarianceExceeds(outputs, pct) ==
    /\ Len(outputs) > 0
    /\ LET sum == SeqSum(outputs)
           n   == Len(outputs)
           mx  == SeqMax(outputs)
       IN  100 * Abs(mx * n - sum) > pct * mx * n

\* C22: a quote variance above the maximum makes the validator print a
\* warning and nothing else: the verdict and its reason are those of the same
\* quote without variance, and the warning is printed exactly when the
\* variance analysis is reached with a variance above the maximum.
C22_VarianceOnlyWarns ==
    /\ (fn = "P7_validateSwapSafety" /\ calls = 1) =>
          /\ res.verdict = P7_validateSwapSafety(FlatQuote(arg)).verdict
          /\ res.reason = P7_validateSwapSafety(FlatQuote(arg)).reason
          /\ res.verdict = "ok" =>
                (res.warned <=> VarianceExceeds(arg.compare, P7_VARIANCE_PCT))
    /\ (fn = "Mev_validateSwapSafety" /\ calls = 1) =>
          /\ res.verdict = Mev_validateSwapSafety(FlatQuote(arg), 1000).verdict
          /\ res.reason = Mev_validateSwapSafety(FlatQuote(arg), 1000).reason
          /\ res.verdict = "ok" =>
                (res.warned <=> VarianceExceeds(arg.compare, MEV_VARIANCE_PCT))

C22_Witness ==
    /\ fn = "P7_validateSwapSafety"
    /\ calls = 1
    /\ VarianceExceeds(arg.compare, P7_VARIANCE_PCT)
    /\ res.verdict = "ok"
    /\ res.warned

\* C23: the delays slept before successive retries of one invocation double
\* (jitter apart), and every delay carries a jitter from a bounded range.
C23_BackoffDoubles ==
    /\ \A i \in 1..Len(waits) : waits[i].jitter \in 0..1000
    /\ \A i \in 1..(Len(waits) - 1) : waits[i + 1].base = 2 * waits[i].base

\* C24: the compute-unit limit that part_008 and solana-swap-instructions-okx
\* attach to a transaction they broadcast is at least BASE_COMPUTE_UNITS and
\* at most MAX_COMPUTE_UNITS.
C24_AttachedLimitWithinBounds ==
    script \in {"p8", "okx"} =>
        \A i \in 1..Len(sent) :
            \A k \in 1..Len(sent[i].instructions) :
                isLimitIx(sent[i].instructions[k]) =>
                    /\ sent[i].instructions[k].arg >= BASE_COMPUTE_UNITS
                    /\ sent[i].instructions[k].arg <= MAX_COMPUTE_UNITS

\* C25: once solana-swap-mev has broadcast and set its timers, the wait ends:
\* the invocation reaches a terminal outcome, not later than MAX_TIMEOUT on
\* the clock of the timers, and the outcome reached is never replaced.
C25_PollingEnds ==
    /\ (pc = "polling") ~> (pc = "done" /\ outcome.status \in {"ok", "error"})
    /\ [](pc = "polling" => clock <= MAX_TIMEOUT)
    /\ [][pc = "done" => (pc' = "done" /\ outcome' = outcome)]_vars

C25_Witness ==
    /\ script = "mev"
    /\ pc = "done"
    /\ settledBy = "timer"
    /\ clock = MAX_TIMEOUT
    /\ lastStatus = "processed"

\* C26: every transaction broadcast is the object that was signed, with the
\* instruction list the signature was made over.
C26_BroadcastIsWhatWasSigned ==
    \A i \in 1..Len(sent) :
        /\ sent[i].signed
        /\ sent[i].signedIxs = sent[i].instructions

\* the broadcasts of this invocation that were executed on chain: those whose
\* confirmation carried an error and the one reported as confirmed
Landed ==
    failedTx \cup (IF outcome.status = "ok" THEN {outcome.txId} ELSE {})

\* C27: within one invocation of the retrying loop of part_008 and part_012,
\* a transaction is broadcast only while no earlier broadcast has been
\* executed on chain, so at most one transaction of the invocation lands.
C27_AtMostOneLands ==
    script \in LoopScripts =>
        /\ Cardinality(Landed) <= 1
        /\ \A i \in 1..Len(sent) : \A j \in failedTx : i <= j

\* C28: after solana-swap-mev has broadcast, the invocation fails only when
\* the network reported an execution error, or when MAX_TIMEOUT has elapsed
\* on the clock of the timers without a confirmed status.
C28_WaitFailsOnlyOnErrorOrTimeout ==
    (script = "mev" /\ Len(sent) >= 1 /\ pc = "done" /\ outcome.status = "error") =>
        \/ failedReported
        \/ clock = MAX_TIMEOUT /\ ~isConfirmedStatus(lastStatus)

\* C29: a transaction whose simulation reported an error is never broadcast.
C29_SimulationErrorNeverBroadcast == simulation = "err" => sent = <<>>

\* C30: once sendAndConfirmProtectedTransaction of solana-swap-mev has
\* settled, its status interval and its timeout timer are no longer
\* scheduled, so that no callback of either can issue a status query.
C30_NoTimerAfterSettle ==
    (script = "mev" /\ settledBy # "none") => (~interval /\ ~timer)

====
